---- MODULE Spec2Model ----
(***************************************************************************)
(* A model of the population-based optimisation core of PaGMO:             *)
(*   - Population (GOclasses/basic/population.cpp): the deme primitives    *)
(*     extractRandomDeme / insertDeme / insertDemeForced /                 *)
(*     insertBestInDeme and substituteIndividual;                          *)
(*   - algorithm::sa_corana (src/algorithm/sa_corana.cpp): the             *)
(*     constructor and evolve.                                             *)
(* Sequences are 1-based in TLA+; the program's indices are 0-based, so    *)
(* the program's pop[k] is pop[k + 1] here.  picks hold 0-based indices.   *)
(***************************************************************************)
EXTENDS Integers, Sequences, FiniteSets

(***************************************************************************)
(* Bounds of the Population model.                                         *)
(***************************************************************************)
\* largest population size explored
MaxPop == 2
\* Pk::nextDouble(rng) returns k / RngDen for k in 0..RngDen-1, a value in [0,1)
RngDen == 2
\* m_drng() returns k / DrngDen for k in 0..DrngDen-1, a value in [0,1)
DrngDen == 3
\* largest number of total iterations (niter) given to sa_corana
MaxNiter == 4
\* largest niterT and niterR given to sa_corana
MaxPeriod == 2
\* largest population handed to sa_corana::evolve
MaxNP == 2
\* largest problem dimension
MaxD == 2
\* std::pow is evaluated to a multiple of 1 / TcoeffDen
TcoeffDen == 4

VARIABLES
    pop,        \* Population::pop, the std::vector<Individual>
    call,       \* the last Population call: its name, arguments and pre-call pop
    ret,        \* what that call has produced: deme, picks, outcome
    loc         \* locals of a running extractRandomDeme: PossiblePicks, i

popvars == <<pop, call, ret, loc>>

VARIABLES
    algo,       \* the sa_corana object: m_niter, m_Ts, m_Tf, m_niterT, m_niterR, m_range
    sa_pc,      \* where the sa_corana object is in its life: constructor, evolve
    prob,       \* the problem::base bound to the population handed to evolve
    spop,       \* the pagmo::population handed to evolve: cur_x, cur_v, cur_f
    spre,       \* spop as it was when evolve was called
    ev,         \* the locals of evolve
    last        \* what the last step of evolve did (the branch a move took)

savars == <<algo, sa_pc, prob, spop, spre, ev, last>>

(***************************************************************************)
(* Individual: decision vector, velocity and cached fitness.  The fitness  *)
(* is a cache, independent of x (population.cpp never re-evaluates): two   *)
(* decision vectors and two fitness values give equal and unequal          *)
(* individuals of equal and unequal fitness.                               *)
(***************************************************************************)
Individuals == [x : {<<0>>, <<1>>}, v : {<<0>>}, f : {0, 1}]

SeqsUpTo(S, n) == UNION {[1..k -> S] : k \in 0..n}

Range(s) == {s[i] : i \in 1..Len(s)}

Injective(s) == \A i, j \in 1..Len(s) : i # j => s[i] # s[j]

\* std::vector::erase(begin() + k), k 0-based
Erase(s, k) == [i \in 1..(Len(s) - 1) |-> IF i <= k THEN s[i] ELSE s[i + 1]]

\* PossiblePicks after the first loop of extractRandomDeme: 0, 1, ..., size-1
InitialPossiblePicks(p) == [i \in 1..Len(p) |-> i - 1]

\* Pick = (int)(Pk::nextDouble(rng) * PossiblePicks.size()), nextDouble = k / RngDen
PickOf(k, size) == (k * size) \div RngDen

\* the pool after one draw: a faulty variant: the drawn index stays in the pool
ErasePickKept(PossiblePicks, Pick) == PossiblePicks

\* PossiblePicks.erase(PossiblePicks.begin() + Pick)
ErasePick(PossiblePicks, Pick) == Erase(PossiblePicks, Pick)

NoCall == [op |-> "none", pre |-> <<>>, N |-> 0, picks |-> <<>>, deme |-> <<>>,
           x |-> <<>>, n |-> 0]
NoRet == [deme |-> <<>>, picks |-> <<>>, result |-> "none"]
NoLoc == [PossiblePicks |-> <<>>, i |-> 0]

\* no Population member function is executing
Idle == ret.result # "running"

\* the picks vectors a caller hands to extractRandomDeme: fresh, or reused
PicksIn == {<<>>, <<0>>}

\* the values an out-of-bounds read of a std::vector<int> may produce
GarbageIndex == {-1, MaxPop + 1}

(***************************************************************************)
(* Population::extractRandomDeme(N, picks, rng), entry: the local deme is  *)
(* empty, PossiblePicks is filled with 0..size-1.  picks is the caller's   *)
(* vector: it is appended to (push_back) and never cleared.                *)
(***************************************************************************)
extractRandomDeme_begin ==
    /\ UNCHANGED savars
    /\ Idle
    /\ \E N \in 0..(MaxPop + 1), picks0 \in PicksIn :
         /\ call' = [NoCall EXCEPT !.op = "extractRandomDeme", !.pre = pop,
                                   !.N = N, !.picks = picks0]
         /\ ret' = [deme |-> <<>>, picks |-> picks0, result |-> "running"]
    /\ loc' = [PossiblePicks |-> InitialPossiblePicks(pop), i |-> 0]
    /\ pop' = pop

(***************************************************************************)
(* One iteration of the second loop (lines 88-97), with a fresh draw k.    *)
(* When PossiblePicks is empty (N > pop.size()), Pick is 0 and             *)
(* PossiblePicks[0] is read out of bounds: undefined behaviour, the        *)
(* process faults or reads garbage.                                        *)
(***************************************************************************)
extractRandomDeme_iter ==
    /\ UNCHANGED savars
    /\ ret.result = "running"
    /\ loc.i < call.N
    /\ pop' = pop /\ call' = call
    /\ \E k \in 0..(RngDen - 1) :
         LET Pick == PickOf(k, Len(loc.PossiblePicks)) IN
         IF Len(loc.PossiblePicks) > 0
         THEN LET idx == loc.PossiblePicks[Pick + 1] IN
              /\ ret' = [ret EXCEPT !.picks = Append(@, idx),
                                    !.deme = Append(@, pop[idx + 1])]
              /\ loc' = [PossiblePicks |-> ErasePick(loc.PossiblePicks, Pick),
                         i |-> loc.i + 1]
         ELSE /\ loc' = NoLoc
              /\ \/ ret' = [ret EXCEPT !.result = "crash"]
                 \/ \E g \in GarbageIndex, junk \in Individuals :
                      ret' = [deme |-> Append(ret.deme, junk),
                              picks |-> Append(ret.picks, g),
                              result |-> "garbage"]

\* return deme (line 98)
extractRandomDeme_return ==
    /\ UNCHANGED savars
    /\ ret.result = "running"
    /\ loc.i >= call.N
    /\ ret' = [ret EXCEPT !.result = "ok"]
    /\ loc' = NoLoc
    /\ pop' = pop /\ call' = call

\* (deme, picks) is the unit of the last completed extraction: a deme and the
\* parallel list of the source indices of its members
DemeInFlight ==
    /\ Idle
    /\ call.op = "extractRandomDeme"
    /\ ret.result = "ok"
    /\ Len(ret.deme) = Len(ret.picks)

\* the deme as it comes back from being evolved elsewhere: same size, any members
EvolvedDemes == [1..Len(ret.deme) -> Individuals]

Returned(name, p, deme, picks) ==
    /\ call' = [NoCall EXCEPT !.op = name, !.pre = p, !.deme = deme, !.picks = picks]
    /\ ret' = [NoRet EXCEPT !.result = "ok"]
    /\ loc' = NoLoc

\* a faulty variant: an incumbent of equal fitness is replaced too
ReplacesOrEqual(migrant, incumbent) == migrant.f <= incumbent.f

\* deme[i].getFitness() < pop[picks[i]].getFitness()  (line 103)
Replaces(migrant, incumbent) == migrant.f < incumbent.f

\* Population::insertDeme, the loop from iteration i (1-based) on
RECURSIVE insertDemeLoop(_, _, _, _)
insertDemeLoop(p, deme, picks, i) ==
    IF i > Len(picks) THEN p
    ELSE insertDemeLoop(
             IF Replaces(deme[i], p[picks[i] + 1])
             THEN [p EXCEPT ![picks[i] + 1] = deme[i]]
             ELSE p,
             deme, picks, i + 1)

insertDeme ==
    /\ UNCHANGED savars
    /\ DemeInFlight
    /\ \E deme \in EvolvedDemes :
         /\ pop' = insertDemeLoop(pop, deme, ret.picks, 1)
         /\ Returned("insertDeme", pop, deme, ret.picks)

\* a faulty variant: only a strictly better migrant is stored
StoreIfBetter(p, k, migrant) ==
    IF migrant.f < p[k + 1].f THEN [p EXCEPT ![k + 1] = migrant] ELSE p

\* pop[picks[i]] = deme[i]  (line 111)
Store(p, k, migrant) == [p EXCEPT ![k + 1] = migrant]

\* Population::insertDemeForced, the loop from iteration i (1-based) on
RECURSIVE insertDemeForcedLoop(_, _, _, _)
insertDemeForcedLoop(p, deme, picks, i) ==
    IF i > Len(picks) THEN p
    ELSE insertDemeForcedLoop(Store(p, picks[i], deme[i]), deme, picks, i + 1)

insertDemeForced ==
    /\ UNCHANGED savars
    /\ DemeInFlight
    /\ \E deme \in EvolvedDemes :
         /\ pop' = insertDemeForcedLoop(pop, deme, ret.picks, 1)
         /\ Returned("insertDemeForced", pop, deme, ret.picks)

\* a faulty variant: the scan moves on to a later pick of equal fitness
WorseOrEqual(f, worst) == f >= worst

\* pop[picks[i]].getFitness() > worst  (line 128)
Worse(f, worst) == f > worst

\* deme[i].getFitness() < best  (line 124)
Better(f, best) == f < best

(***************************************************************************)
(* The scan of insertBestInDeme (lines 118-132) from iteration i on; i is  *)
(* the program's 0-based i, st = [bestindeme, worstinpicks, best, worst].  *)
(***************************************************************************)
RECURSIVE BestWorstScan(_, _, _, _, _)
BestWorstScan(p, deme, picks, i, st) ==
    IF i >= Len(deme) THEN st
    ELSE LET fd == deme[i + 1].f
             fp == p[picks[i + 1] + 1].f
             s1 == IF Better(fd, st.best)
                   THEN [st EXCEPT !.bestindeme = i, !.best = fd] ELSE st
             s2 == IF Worse(fp, s1.worst)
                   THEN [s1 EXCEPT !.worstinpicks = i, !.worst = fp] ELSE s1
         IN  BestWorstScan(p, deme, picks, i + 1, s2)

BestWorst(p, deme, picks) ==
    BestWorstScan(p, deme, picks, 1,
        [bestindeme |-> 0, worstinpicks |-> 0,
         best |-> deme[1].f, worst |-> p[picks[1] + 1].f])

(***************************************************************************)
(* Population::insertBestInDeme.  With an empty deme, deme[0] and picks[0] *)
(* are read out of bounds (lines 120-121, 133): undefined behaviour.       *)
(***************************************************************************)
insertBestInDeme ==
    /\ UNCHANGED savars
    /\ DemeInFlight
    /\ \E deme \in EvolvedDemes :
         IF Len(deme) > 0
         THEN LET st == BestWorst(pop, deme, ret.picks) IN
              /\ pop' = [pop EXCEPT ![ret.picks[st.worstinpicks + 1] + 1] =
                                        deme[st.bestindeme + 1]]
              /\ Returned("insertBestInDeme", pop, deme, ret.picks)
         ELSE /\ call' = [NoCall EXCEPT !.op = "insertBestInDeme", !.pre = pop]
              /\ loc' = NoLoc
              /\ \/ pop' = pop /\ ret' = [NoRet EXCEPT !.result = "crash"]
                 \/ /\ ret' = [NoRet EXCEPT !.result = "garbage"]
                    /\ \/ pop' = pop
                       \/ \E g \in 1..Len(pop), junk \in Individuals :
                            pop' = [pop EXCEPT ![g] = junk]

(***************************************************************************)
(* Population::substituteIndividual(x, n): pop[n] is std::vector's         *)
(* unchecked operator[]; for n outside [0,size) the three setters write    *)
(* through a reference outside the vector: undefined behaviour (a fault,   *)
(* or a silent write to memory that is not an Individual of pop).          *)
(***************************************************************************)
substituteIndividual ==
    /\ UNCHANGED savars
    /\ Idle
    /\ \E x \in Individuals, n \in (-1)..MaxPop :
         /\ call' = [NoCall EXCEPT !.op = "substituteIndividual", !.pre = pop,
                                   !.x = x, !.n = n]
         /\ loc' = NoLoc
         /\ IF n >= 0 /\ n < Len(pop)
            THEN /\ pop' = [pop EXCEPT ![n + 1] = [x |-> x.x, v |-> x.v, f |-> x.f]]
                 /\ ret' = [NoRet EXCEPT !.result = "ok"]
            ELSE /\ pop' = pop
                 /\ \E out \in {"crash", "garbage"} :
                      ret' = [NoRet EXCEPT !.result = out]

PopInit ==
    /\ pop \in SeqsUpTo(Individuals, MaxPop)
    /\ call = NoCall
    /\ ret = NoRet
    /\ loc = NoLoc

\* no sa_corana object exists
NoAlgorithm ==
    /\ algo = <<>>
    /\ sa_pc = "new"
    /\ prob = <<>>
    /\ spop = <<>>
    /\ spre = <<>>
    /\ ev = <<>>
    /\ last = [branch |-> "none"]

Next ==
    \/ extractRandomDeme_begin
    \/ extractRandomDeme_iter
    \/ extractRandomDeme_return
    \/ insertDeme
    \/ insertDemeForced
    \/ insertBestInDeme
    \/ substituteIndividual

vars == <<pop, call, ret, loc, algo, sa_pc, prob, spop, spre, ev, last>>

Init == PopInit /\ NoAlgorithm

\* the Population operations, on every population of up to MaxPop individuals
Spec == Init /\ [][Next]_vars

(***************************************************************************)
(* Claims about Population.                                                *)
(***************************************************************************)
InRange(k, p) == k >= 0 /\ k < Len(p)

ExtractFinished == call.op = "extractRandomDeme" /\ ret.result # "running"

\* C1 as stated: for 0 <= N <= size, extractRandomDeme returns a deme of size
\* N, picks is a list of N pairwise-distinct indices in [0,size), deme[i] is
\* the Individual at pop[picks[i]], and for N = size picks is a permutation
\* of [0,size).
C1_PicksAreTheDemeIndices ==
    (ExtractFinished /\ call.N <= Len(call.pre)) =>
        /\ ret.result = "ok"
        /\ Len(ret.deme) = call.N
        /\ Len(ret.picks) = call.N
        /\ Injective(ret.picks)
        /\ \A i \in 1..Len(ret.picks) : InRange(ret.picks[i], call.pre)
        /\ \A i \in 1..call.N : ret.deme[i] = call.pre[ret.picks[i] + 1]
        /\ (call.N = Len(call.pre) => Range(ret.picks) = 0..(Len(call.pre) - 1))

\* the entries the call appended to picks
Appended == SubSeq(ret.picks, Len(call.picks) + 1, Len(ret.picks))

\* C1 (amended): for 0 <= N <= size, extractRandomDeme returns a deme of size
\* N and appends N entries to picks, leaving the entries picks held on entry in
\* place; the appended entries are pairwise-distinct indices in [0,size), deme[i]
\* is the Individual at pop[appended[i]], the population is not modified, and for
\* N = size the appended entries are a permutation of [0,size).
C1_AppendedPicksAreTheDemeIndices ==
    (ExtractFinished /\ call.N <= Len(call.pre)) =>
        /\ ret.result = "ok"
        /\ pop = call.pre
        /\ Len(ret.deme) = call.N
        /\ Len(ret.picks) = Len(call.picks) + call.N
        /\ SubSeq(ret.picks, 1, Len(call.picks)) = call.picks
        /\ Injective(Appended)
        /\ \A i \in 1..call.N : InRange(Appended[i], call.pre)
        /\ \A i \in 1..call.N : ret.deme[i] = call.pre[Appended[i] + 1]
        /\ (call.N = Len(call.pre) => Range(Appended) = 0..(Len(call.pre) - 1))

\* a whole population of at least two, extracted in reverse order into a picks
\* vector that was not empty
C1_Witness ==
    /\ ExtractFinished /\ ret.result = "ok"
    /\ call.N = Len(call.pre) /\ call.N >= 2
    /\ Len(call.picks) > 0
    /\ Appended[1] = call.N - 1
    /\ Appended[call.N] = 0

\* C2: after insertDeme, pop[picks[i]] is deme[i] exactly when deme[i]'s fitness
\* is strictly lower than the incumbent's, is the incumbent otherwise, and its
\* fitness is never higher than before the call.
C2_InsertDemeNeverRegresses ==
    (call.op = "insertDeme") =>
        \A i \in 1..Len(call.picks) :
            LET k == call.picks[i] + 1 IN
            /\ pop[k].f <= call.pre[k].f
            /\ (call.deme[i].f < call.pre[k].f => pop[k] = call.deme[i])
            /\ (~(call.deme[i].f < call.pre[k].f) => pop[k] = call.pre[k])

\* one migrant replaced a strictly worse incumbent, another of equal fitness
\* (and a different decision vector) was turned away
C2_Witness ==
    /\ call.op = "insertDeme"
    /\ \E i, j \in 1..Len(call.picks) :
         /\ call.deme[i].f < call.pre[call.picks[i] + 1].f
         /\ pop[call.picks[i] + 1] = call.deme[i]
         /\ call.deme[j].f = call.pre[call.picks[j] + 1].f
         /\ call.deme[j] # call.pre[call.picks[j] + 1]
         /\ pop[call.picks[j] + 1] = call.pre[call.picks[j] + 1]

\* the first position of a sequence of fitness values holding the value m
FirstAt(fs, m) == CHOOSE i \in 1..Len(fs) : fs[i] = m /\ \A j \in 1..(i - 1) : fs[j] # m

MaxOf(fs) == CHOOSE m \in Range(fs) : \A y \in Range(fs) : y <= m
MinOf(fs) == CHOOSE m \in Range(fs) : \A y \in Range(fs) : m <= y

PicksFitness == [i \in 1..Len(call.picks) |-> call.pre[call.picks[i] + 1].f]
DemeFitness == [i \in 1..Len(call.deme) |-> call.deme[i].f]

C4_ForcedOverwritesEveryPick ==
    (call.op = "insertDemeForced") =>
        /\ Len(pop) = Len(call.pre)
        /\ \A i \in 1..Len(call.picks) : pop[call.picks[i] + 1] = call.deme[i]
        /\ \A k \in 1..Len(pop) :
             (k - 1) \notin Range(call.picks) => pop[k] = call.pre[k]

\* a forced insertion that made a position worse, into a population with a
\* position outside the picks
C4_Witness ==
    /\ call.op = "insertDemeForced"
    /\ Len(call.picks) >= 1
    /\ Len(pop) > Len(call.picks)
    /\ \E i \in 1..Len(call.picks) : call.deme[i].f > call.pre[call.picks[i] + 1].f

\* C9: extractRandomDeme with N > size, and substituteIndividual with n outside
\* [0,size), are reported as a failure of the call and leave the population (and
\* picks) as they were.
C9_BoundsViolationIsReported ==
    /\ (ExtractFinished /\ call.N > Len(call.pre)) =>
           (ret.result = "error" /\ pop = call.pre /\ ret.picks = call.picks)
    /\ (call.op = "substituteIndividual" /\ ~InRange(call.n, call.pre)) =>
           (ret.result = "error" /\ pop = call.pre)

(***************************************************************************)
(* sa_corana.  doubles are modelled as exact rationals <<n, d>>, d > 0, in  *)
(* lowest terms.                                                           *)
(***************************************************************************)
Abs(n) == IF n < 0 THEN -n ELSE n

RECURSIVE GCD(_, _)
GCD(a, b) == IF b = 0 THEN a ELSE GCD(b, a % b)

Norm(n, d) ==
    LET g == GCD(Abs(n), Abs(d))
        sg == IF d < 0 THEN -1 ELSE 1
    IN  <<(sg * n) \div g, (sg * d) \div g>>

QInt(n) == <<n, 1>>
QAdd(a, b) == Norm(a[1] * b[2] + b[1] * a[2], a[2] * b[2])
QSub(a, b) == Norm(a[1] * b[2] - b[1] * a[2], a[2] * b[2])
QMul(a, b) == Norm(a[1] * b[1], a[2] * b[2])
QDiv(a, b) == Norm(a[1] * b[2], a[2] * b[1])
QLess(a, b) == a[1] * b[2] < b[1] * a[2]
QAbs(a) == <<Abs(a[1]), a[2]>>

RECURSIVE IntPow(_, _)
IntPow(b, n) == IF n = 0 THEN 1 ELSE b * IntPow(b, n - 1)

\* m_drng(): the k-th value of the uniform grid on [0,1)
Draw(k) == Norm(k, DrngDen)
Draws == 0..(DrngDen - 1)

\* std::pow(q, 1.0 / n) for 0 < q < 1, rounded down to a multiple of 1 / TcoeffDen
RootQ(q, n) ==
    LET k == CHOOSE c \in 0..TcoeffDen :
                 /\ IntPow(c, n) * q[2] <= q[1] * IntPow(TcoeffDen, n)
                 /\ \A c2 \in (c + 1)..TcoeffDen :
                        IntPow(c2, n) * q[2] > q[1] * IntPow(TcoeffDen, n)
    IN  Norm(k, TcoeffDen)

\* exp(y): 1 + y for y >= 0 and 1 / (1 - y) for y < 0; monotone, positive,
\* exp(0) = 1, at least 1 exactly when y >= 0
Exp(y) ==
    IF y[1] >= 0 THEN QAdd(QInt(1), y)
    ELSE QDiv(QInt(1), QSub(QInt(1), y))

\* the hyperparameters handed to the constructor
NiterVals == (-1)..MaxNiter
TempVals == {QInt(-1), QInt(0), QInt(1), QInt(4)}
PeriodVals == (-1)..MaxPeriod
RangeVals == {Norm(-1, 2), QInt(0), QInt(1), Norm(3, 2)}

\* the conditions under which the constructor throws value_error (lines 50-64)
CtorThrows(niter, Ts, Tf, niterT, niterR, range) ==
    \/ niter < 0
    \/ ~QLess(QInt(0), Ts) \/ ~QLess(QInt(0), Tf) \/ ~QLess(Tf, Ts)
    \/ niterT < 0
    \/ niterR < 0
    \/ QLess(range, QInt(0)) \/ QLess(QInt(1), range)

NoEv == [niterOuter |-> 0, bestidx |-> 0, fit0 |-> <<>>, Tcoeff |-> QInt(0),
         xNEW |-> <<>>, xOLD |-> <<>>, fNEW |-> <<>>, fOLD |-> <<>>,
         Step |-> <<>>, acp |-> <<>>, currentT |-> QInt(0),
         jter |-> 0, mter |-> 0, kter |-> 0, numb |-> 0, nter |-> 0,
         xFinal |-> <<>>, offset |-> 0, visited |-> <<>>]
NoMove == [branch |-> "none", nter |-> 0, acp |-> 0, cand |-> <<>>,
           fOLD |-> <<>>, fNEW |-> <<>>]

\* sa_corana::sa_corana (lines 47-65)
sa_corana_ctor ==
    /\ UNCHANGED popvars
    /\ sa_pc = "new"
    /\ \E niter \in NiterVals, Ts \in TempVals, Tf \in TempVals,
          niterT \in PeriodVals, niterR \in PeriodVals, range \in RangeVals :
         /\ algo' = [m_niter |-> niter, m_Ts |-> Ts, m_Tf |-> Tf,
                     m_niterT |-> niterT, m_niterR |-> niterR, m_range |-> range]
         /\ sa_pc' = IF CtorThrows(niter, Ts, Tf, niterT, niterR, range)
                     THEN "ctor_value_error" ELSE "constructed"
    /\ UNCHANGED <<prob, spop, spre, ev, last>>

(***************************************************************************)
(* problem::base and pagmo::population, as far as evolve uses them.        *)
(***************************************************************************)
RECURSIVE SumSeq(_, _)
SumSeq(xs, i) == IF i > Len(xs) THEN QInt(0) ELSE QAdd(xs[i], SumSeq(xs, i + 1))

\* prob.objfun(f, x): a sum of squares, or the sum of the components
Objfun(pr, x) ==
    LET val == IF pr.kind = "sphere"
               THEN SumSeq([i \in 1..Len(x) |-> QMul(x[i], x[i])], 1)
               ELSE SumSeq(x, 1)
    IN  [j \in 1..pr.f_dim |-> val]

\* prob.compare_fitness(a, b): a is strictly better than b (lower is better)
CompareFitness(a, b) == QLess(a[1], b[1])

ProblemShapes ==
    {[D |-> d, i_dim |-> i, c_dim |-> c, f_dim |-> f,
      lb |-> [j \in 1..d |-> QInt(-1)], ub |-> [j \in 1..d |-> QInt(1)],
      kind |-> k] :
        d \in 1..MaxD, i \in 0..MaxD, c \in 0..1, f \in 1..2,
        k \in {"sphere", "slope"}}

\* the integer part is a trailing part of the decision vector
Problems == {pr \in ProblemShapes : pr.i_dim <= pr.D}

\* the individuals of a population bound to pr: evaluated, each component at
\* one of its bounds
IndividualsOf(pr) ==
    {[cur_x |-> x, cur_v |-> [j \in 1..pr.D |-> QInt(0)], cur_f |-> Objfun(pr, x)] :
        x \in [1..pr.D -> {QInt(-1), QInt(1)}]}

PopulationsOf(pr) == UNION {[1..n -> IndividualsOf(pr)] : n \in 1..MaxNP}

\* pop.get_best_idx(): the first individual no other one is better than (0-based)
get_best_idx(p) ==
    (CHOOSE i \in 1..Len(p) :
        /\ \A j \in 1..Len(p) : ~CompareFitness(p[j].cur_f, p[i].cur_f)
        /\ \A j \in 1..(i - 1) : CompareFitness(p[i].cur_f, p[j].cur_f)) - 1

\* pop.set_x(idx, x): stores the decision vector and re-evaluates the fitness
set_x(p, pr, idx, x) ==
    [p EXCEPT ![idx + 1] = [@ EXCEPT !.cur_x = x, !.cur_f = Objfun(pr, x)]]

\* pop.set_v(idx, v)
set_v(p, idx, v) == [p EXCEPT ![idx + 1] = [@ EXCEPT !.cur_v = v]]

\* what an integer division by zero may leave in niterOuter when it does not trap
GarbageQuotient == {0, 1}

\* the locals of evolve as lines 109-123 initialise them
EvolveLocals(p, pr, niterOuter) ==
    LET bestidx == get_best_idx(p)
        x0 == p[bestidx + 1].cur_x
        fit0 == p[bestidx + 1].cur_f
    IN  [niterOuter |-> niterOuter, bestidx |-> bestidx, fit0 |-> fit0,
         Tcoeff |-> RootQ(QDiv(algo.m_Tf, algo.m_Ts), niterOuter),
         xNEW |-> x0, xOLD |-> x0, fNEW |-> fit0, fOLD |-> fit0,
         Step |-> [j \in 1..pr.D |-> algo.m_range],
         acp |-> [j \in 1..pr.D |-> 0],
         currentT |-> algo.m_Ts,
         jter |-> 0, mter |-> 0, kter |-> 0, numb |-> 0, nter |-> 0,
         xFinal |-> <<>>, offset |-> 0, visited |-> <<>>]

(***************************************************************************)
(* sa_corana::evolve, lines 83-123: the checks, niterOuter and the         *)
(* initialisation of the locals.  m_niter / (m_niterT * m_niterR * Dc) is  *)
(* an integer division; the constructor admits m_niterT = 0 and            *)
(* m_niterR = 0, and then the divisor is 0: undefined behaviour (the       *)
(* division traps, or leaves some value in niterOuter).                    *)
(***************************************************************************)
evolve_begin ==
    /\ UNCHANGED popvars
    /\ sa_pc = "constructed"
    /\ \E pr \in Problems : \E p \in PopulationsOf(pr) :
         LET Dc == pr.D - pr.i_dim
             divisor == algo.m_niterT * algo.m_niterR * Dc
             Throw == sa_pc' = "evolve_value_error" /\ ev' = NoEv
             Run(niterOuter) ==
                 IF niterOuter = 0 THEN Throw
                 ELSE sa_pc' = "loop" /\ ev' = EvolveLocals(p, pr, niterOuter)
         IN  /\ prob' = pr /\ spop' = p /\ spre' = p
             /\ IF Dc = 0 THEN Throw
                ELSE IF pr.c_dim # 0 THEN Throw
                ELSE IF pr.f_dim # 1 THEN Throw
                ELSE IF divisor = 0
                     THEN \/ sa_pc' = "crash" /\ ev' = NoEv
                          \/ \E q \in GarbageQuotient : Run(q)
                     ELSE Run(algo.m_niter \div divisor)
    /\ last' = NoMove
    /\ UNCHANGED algo

\* the number of continuous components, Dc = D - prob_i_dimension (line 87)
Dc == prob.D - prob.i_dim

\* a faulty variant: a candidate below the lower bound passes
InfeasibleAbove(x, lb, ub) == QLess(ub, x)

\* (xNEW[nter] > ub[nter]) || (xNEW[nter] < lb[nter])  (line 138)
Infeasible(x, lb, ub) == QLess(ub, x) \/ QLess(x, lb)

\* a variant: the Metropolis form, exp(-|fOLD - fNEW| / T)
ProbabMetropolis(fOLD, fNEW, currentT) ==
    Exp(QSub(QInt(0), QDiv(QAbs(QSub(fOLD[1], fNEW[1])), currentT)))

\* probab = exp(fabs(fOLD[0] - fNEW[0]) / currentT)  (line 153)
Probab(fOLD, fNEW, currentT) ==
    Exp(QDiv(QAbs(QSub(fOLD[1], fNEW[1])), currentT))

\* a faulty variant: the rotation runs over all D components, integer part included
NextNterOverD(nter, dc) == (nter + 1) % prob.D

\* nter = (nter + 1) % Dc  (line 131)
NextNter(nter, dc) == (nter + 1) % dc

\* line 129: size_t nter = (size_t)(m_drng() * Dc), at the head of a sweep.
\* offset and visited record the draw and the components the sweep has moved.
evolve_sweep_begin ==
    /\ UNCHANGED popvars
    /\ sa_pc = "loop"
    /\ ev.jter < ev.niterOuter /\ ev.mter < algo.m_niterT /\ ev.kter < algo.m_niterR
    /\ \E k \in Draws :
         ev' = [ev EXCEPT !.nter = (k * Dc) \div DrngDen, !.numb = 0,
                          !.offset = (k * Dc) \div DrngDen, !.visited = <<>>]
    /\ sa_pc' = "sweep"
    /\ last' = NoMove
    /\ UNCHANGED <<algo, prob, spop, spre>>

(***************************************************************************)
(* One iteration of the loop over numb (lines 130-164): the move of        *)
(* component nter, with draw k for r and draw u for the Boltzmann test.    *)
(***************************************************************************)
evolve_move ==
    /\ UNCHANGED popvars
    /\ sa_pc = "sweep"
    /\ ev.numb < Dc
    /\ \E k \in Draws :
         LET nter == NextNter(ev.nter, Dc)
             n1 == nter + 1
             r == QSub(QMul(QInt(2), Draw(k)), QInt(1))
             cand == QAdd(ev.xOLD[n1],
                          QMul(QMul(r, ev.Step[n1]), QSub(prob.ub[n1], prob.lb[n1])))
             xN == [ev.xNEW EXCEPT ![n1] = cand]
             fN == Objfun(prob, xN)
             moved == [ev EXCEPT !.nter = nter, !.numb = @ + 1,
                                 !.visited = Append(@, nter)]
             accepted == [moved EXCEPT !.xNEW = xN, !.fNEW = fN,
                                       !.xOLD[n1] = cand, !.fOLD = fN,
                                       !.acp[n1] = @ + 1]
             took(b) == [branch |-> b, nter |-> nter, acp |-> ev.acp[n1],
                         cand |-> cand, fOLD |-> ev.fOLD, fNEW |-> fN]
         IN  IF Infeasible(cand, prob.lb[n1], prob.ub[n1])
             THEN /\ ev' = [moved EXCEPT !.xNEW[n1] = ev.xOLD[n1]]
                  /\ last' = [took("infeasible") EXCEPT !.fNEW = ev.fNEW]
             ELSE IF CompareFitness(fN, ev.fOLD)
             THEN /\ ev' = accepted
                  /\ last' = took("improving")
             ELSE \E u \in Draws :
                  IF QLess(Draw(u), Probab(ev.fOLD, fN, ev.currentT))
                  THEN /\ ev' = accepted
                       /\ last' = took("boltzmann_accept")
                  ELSE /\ ev' = [moved EXCEPT !.xNEW[n1] = ev.xOLD[n1], !.fNEW = fN]
                       /\ last' = took("boltzmann_reject")
    /\ UNCHANGED <<algo, sa_pc, prob, spop, spre>>

\* the loop over numb is over: ++kter (line 128)
evolve_sweep_end ==
    /\ UNCHANGED popvars
    /\ sa_pc = "sweep"
    /\ ev.numb >= Dc
    /\ ev' = [ev EXCEPT !.kter = @ + 1]
    /\ sa_pc' = "loop"
    /\ last' = NoMove
    /\ UNCHANGED <<algo, prob, spop, spre>>

\* Step[iter] after lines 170-184; with m_niterR = 0 ratio is 0.0 / 0.0, a NaN,
\* and both comparisons with it are false
AdjustedStep(step, acp, niterR, range) ==
    LET ratio == Norm(acp, niterR)
        s1 == IF niterR = 0 THEN step
              ELSE IF QLess(Norm(6, 10), ratio)
              THEN QMul(step, QAdd(QInt(1), QDiv(QMul(QInt(2), QSub(ratio, Norm(6, 10))),
                                                 Norm(4, 10))))
              ELSE IF QLess(ratio, Norm(4, 10))
              THEN QDiv(step, QAdd(QInt(1), QMul(QInt(2),
                                                 QDiv(QSub(Norm(4, 10), ratio), Norm(4, 10)))))
              ELSE step
    IN  IF QLess(range, s1) THEN range ELSE s1

\* lines 168-185: the sweeps of this period are done, adapt the steps, ++mter
evolve_adjust_step ==
    /\ UNCHANGED popvars
    /\ sa_pc = "loop"
    /\ ev.jter < ev.niterOuter /\ ev.mter < algo.m_niterT /\ ev.kter >= algo.m_niterR
    /\ ev' = [ev EXCEPT
                !.Step = [j \in 1..prob.D |->
                             IF j <= Dc
                             THEN AdjustedStep(ev.Step[j], ev.acp[j], algo.m_niterR,
                                               algo.m_range)
                             ELSE ev.Step[j]],
                !.acp = [j \in 1..prob.D |-> IF j <= Dc THEN 0 ELSE ev.acp[j]],
                !.mter = @ + 1, !.kter = 0]
    /\ last' = [NoMove EXCEPT !.branch = "adjust_step", !.acp = ev.acp]
    /\ UNCHANGED <<algo, sa_pc, prob, spop, spre>>

\* lines 187-188: currentT *= Tcoeff, ++jter
evolve_cool ==
    /\ UNCHANGED popvars
    /\ sa_pc = "loop"
    /\ ev.jter < ev.niterOuter /\ ev.mter >= algo.m_niterT
    /\ ev' = [ev EXCEPT !.currentT = QMul(@, ev.Tcoeff), !.jter = @ + 1,
                        !.mter = 0, !.kter = 0]
    /\ last' = NoMove
    /\ UNCHANGED <<algo, sa_pc, prob, spop, spre>>

(***************************************************************************)
(* Lines 190-194.  set_x stores xOLD in the individual; std::transform     *)
(* then subtracts the individual's cur_x, read after set_x, from xOLD in   *)
(* place, and set_v stores the result.                                     *)
(***************************************************************************)
evolve_final ==
    /\ UNCHANGED popvars
    /\ sa_pc = "loop"
    /\ ev.jter >= ev.niterOuter
    /\ IF CompareFitness(ev.fOLD, ev.fit0)
       THEN LET p1 == set_x(spop, prob, ev.bestidx, ev.xOLD)
                xd == [j \in 1..prob.D |->
                          QSub(ev.xOLD[j], p1[ev.bestidx + 1].cur_x[j])]
            IN  /\ spop' = set_v(p1, ev.bestidx, xd)
                /\ ev' = [ev EXCEPT !.xOLD = xd, !.xFinal = ev.xOLD]
       ELSE /\ spop' = spop
            /\ ev' = [ev EXCEPT !.xFinal = ev.xOLD]
    /\ sa_pc' = "done"
    /\ last' = NoMove
    /\ UNCHANGED <<algo, prob, spre>>

NextSA ==
    \/ sa_corana_ctor
    \/ evolve_begin
    \/ evolve_sweep_begin
    \/ evolve_move
    \/ evolve_sweep_end
    \/ evolve_adjust_step
    \/ evolve_cool
    \/ evolve_final

InitSA == pop = <<>> /\ call = NoCall /\ ret = NoRet /\ loc = NoLoc /\ NoAlgorithm

\* one sa_corana object: its construction, then one call of evolve
SpecSA == InitSA /\ [][NextSA]_vars

(***************************************************************************)
(* Claims about sa_corana.                                                 *)
(***************************************************************************)
QLeq(a, b) == ~QLess(b, a)

InBox(x) == \A j \in 1..Len(x) : QLeq(prob.lb[j], x[j]) /\ QLeq(x[j], prob.ub[j])

\* the fitness of the population's best individual
BestFitness(p) == p[get_best_idx(p) + 1].cur_f[1]

\* evolve has been called and went past its checks
Evolving == sa_pc \in {"loop", "sweep", "done"}

\* C5: when evolve finishes with a final point that strictly improves on the
\* best individual's original fitness, the best individual's decision vector is
\* the final point and its velocity is, coordinate by coordinate, the new
\* decision vector minus the one it had before the call; otherwise the
\* population is unchanged.
C5_VelocityIsTheDelta ==
    (sa_pc = "done") =>
        LET b == ev.bestidx + 1 IN
        IF CompareFitness(ev.fOLD, ev.fit0)
        THEN /\ spop[b].cur_x = ev.xFinal
             /\ \A j \in 1..prob.D :
                    spop[b].cur_v[j] = QSub(spop[b].cur_x[j], spre[b].cur_x[j])
        ELSE spop = spre

\* C6: on a single-objective, unconstrained problem with a continuous part,
\* evolve leaves the best fitness no higher than it was, keeps the current
\* point, every candidate it evaluates and the final decision vector within
\* [lb,ub], and modifies no individual other than the best one.
C6_EvolveNeverRegressesNorLeavesTheBox ==
    Evolving =>
        /\ Len(spop) = Len(spre)
        /\ \A i \in 1..Len(spop) : i # ev.bestidx + 1 => spop[i] = spre[i]
        /\ (sa_pc # "done") => (InBox(ev.xOLD) /\ InBox(ev.xNEW) /\ spop = spre)
        /\ (last.branch \in {"improving", "boltzmann_accept", "boltzmann_reject"}) =>
               /\ QLeq(prob.lb[last.nter + 1], last.cand)
               /\ QLeq(last.cand, prob.ub[last.nter + 1])
        /\ (sa_pc = "done") =>
               /\ InBox(ev.xFinal)
               /\ InBox(spop[ev.bestidx + 1].cur_x)
               /\ QLeq(BestFitness(spop), BestFitness(spre))

\* a finished run on a population of two whose best individual was the second
\* one: it improved strictly, and a step was cut down on the way (a candidate
\* had left the box)
C6_Witness ==
    /\ sa_pc = "done"
    /\ Len(spop) >= 2
    /\ ev.bestidx = 1
    /\ QLess(BestFitness(spop), BestFitness(spre))
    /\ \E j \in 1..Dc : QLess(ev.Step[j], algo.m_range)

\* the hyperparameters the specification admits
HyperparametersValid(a) ==
    /\ a.m_niter > 0
    /\ QLess(a.m_Tf, a.m_Ts) /\ QLess(QInt(0), a.m_Tf) /\ QLess(QInt(0), a.m_Ts)
    /\ a.m_niterT >= 0
    /\ a.m_niterR >= 0
    /\ QLeq(QInt(0), a.m_range) /\ QLeq(a.m_range, QInt(1))

\* C7: constructing sa_corana fails with a value error exactly for the
\* hyperparameter tuples that violate one of: niter > 0, Ts > Tf > 0,
\* niterT >= 0, niterR >= 0, range in [0,1].
C7_InvalidHyperparametersFailConstruction ==
    (sa_pc # "new") =>
        ((sa_pc # "ctor_value_error") <=> HyperparametersValid(algo))

\* the problem or the iteration budget does not suit sa_corana
Unsuitable ==
    \/ Dc = 0
    \/ prob.c_dim # 0
    \/ prob.f_dim # 1
    \/ algo.m_niterT * algo.m_niterR * Dc = 0
    \/ algo.m_niter \div (algo.m_niterT * algo.m_niterR * Dc) = 0

\* C8: for every constructed sa_corana, evolve fails with a value error, the
\* population untouched, whenever the problem has no continuous part, has
\* constraints, is not single-objective, or the outer loop count is zero or
\* cannot be computed.
C8_UnsuitableEvolveFailsCleanly ==
    (sa_pc \notin {"new", "ctor_value_error", "constructed"} /\ Unsuitable) =>
        (sa_pc = "evolve_value_error" /\ spop = spre)

\* C10: no move takes the reject branch of the Boltzmann test: every candidate
\* within [lb,ub] becomes the current point and the acceptance counter of its
\* dimension goes up by one; the Boltzmann probability is never below 1.
C10_EveryFeasibleMoveIsAccepted ==
    /\ last.branch # "boltzmann_reject"
    /\ (last.branch \in {"improving", "boltzmann_accept"}) =>
           /\ ev.xOLD[last.nter + 1] = last.cand
           /\ ev.xNEW = ev.xOLD
           /\ ev.fOLD = last.fNEW
           /\ ev.acp[last.nter + 1] = last.acp + 1
    /\ (last.branch = "boltzmann_accept") =>
           QLeq(QInt(1), Probab(last.fOLD, last.fNEW, ev.currentT))

\* a strictly worse candidate was accepted after the temperature had gone down
C10_Witness ==
    /\ last.branch = "boltzmann_accept"
    /\ QLess(last.fOLD[1], last.fNEW[1])
    /\ QLess(ev.currentT, algo.m_Ts)

\* C11: a sweep makes exactly Dc moves, of the components
\* (offset + 1) mod Dc, (offset + 2) mod Dc, ... in this cyclic order, each
\* continuous component once; no component of the integer part (index >= Dc)
\* is ever moved, stepped or counted; at a step adjustment every acceptance
\* counter is between 0 and m_niterR and is 0 afterwards.
C11_SweepVisitsEachContinuousComponentOnce ==
    (sa_pc \in {"loop", "sweep"}) =>
        /\ (sa_pc = "sweep") =>
               /\ Len(ev.visited) = ev.numb
               /\ ev.numb <= Dc
               /\ \A i \in 1..Len(ev.visited) :
                      ev.visited[i] = (ev.offset + i) % Dc
               /\ Injective(ev.visited)
               /\ (ev.numb >= Dc) => Range(ev.visited) = 0..(Dc - 1)
        /\ \A j \in 1..prob.D :
               IF j > Dc
               THEN /\ ev.xOLD[j] = spre[ev.bestidx + 1].cur_x[j]
                    /\ ev.xNEW[j] = spre[ev.bestidx + 1].cur_x[j]
                    /\ ev.Step[j] = algo.m_range
                    /\ ev.acp[j] = 0
               ELSE ev.acp[j] >= 0 /\ ev.acp[j] <= algo.m_niterR
        /\ (last.branch = "adjust_step") =>
               \A j \in 1..Dc :
                   /\ last.acp[j] >= 0 /\ last.acp[j] <= algo.m_niterR
                   /\ ev.acp[j] = 0

\* a step adjustment after a period of two sweeps over two continuous
\* components, the last sweep in the order 1, 0, with a counter that had
\* reached the period
C11_Witness ==
    /\ sa_pc = "loop"
    /\ last.branch = "adjust_step"
    /\ Dc = 2
    /\ algo.m_niterR = 2
    /\ ev.visited = <<1, 0>>
    /\ \E j \in 1..Dc : last.acp[j] = algo.m_niterR

====
